---- MODULE Spec2Model ----
(***************************************************************************)
(* A model of the NftScan API client (src/nftscan/nftscan_api.py): the     *)
(* session held by a NftScanAPI object, the request pipeline               *)
(* (_make_request, _authenticate, _api_request) and the domain methods.    *)
(* The HTTP server is the environment: every send draws its response from  *)
(* a bounded set of transport responses.                                   *)
(***************************************************************************)
EXTENDS Integers, Sequences, FiniteSets, TLC

VARIABLES
    accessToken,   \* self.accessToken: None or the stored token
    expiration,    \* self.expiration: unset, or the absolute expiry
    headers,       \* self.headers: the outgoing-header template (a dict)
    granted,       \* history: the token of the latest _authenticate that returned
    now,           \* the wall clock read by datetime.now()
    pc,            \* position of the call in progress
    call,          \* what the domain method handed to _api_request
    log,           \* the sends of the call in progress, with their outcomes
    lastResp,      \* the transport response of the latest send
    writes,        \* the export files written by the call in progress
    result         \* what the call returned or raised

vars == <<accessToken, expiration, headers, granted, now, pc, call, log, lastResp,
          writes, result>>

----------------------------------------------------------------------------
(* Bounds of the model *)

MaxTime == 2

(* Program constants *)

MAX_PAGE_SIZE == 100

ApiKey == "key"
ApiSecret == "secret"
ApiUrl == "https://restapi.nftscan.com/api//v1"
AuthUrl == "https://restapi.nftscan.com/gw/token"

CT == "Content-Type"
AT == "Access-Token"

----------------------------------------------------------------------------
(* Python values *)

None == [isNone |-> TRUE]
Some(v) == [isNone |-> FALSE, val |-> v]

\* An exception: its class and what it reports.
Err(type, why) == [type |-> type, why |-> why]
NoErr == Err("", "")

\* JSON values carried in a response: null, or an object (a dict).
JNull == [t |-> "null"]
JObj(f) == [t |-> "object", obj |-> f]

Tokens == {"tok123", "tok456"}
ExpSecs == {1}

\* The objects a server may put under "data", or return from the
\* authentication endpoint: a payload, or (part of) a token grant.
Grants ==
    {("accessToken" :> t) @@ ("expiration" :> n) : t \in Tokens, n \in ExpSecs}
    \cup {("accessToken" :> "tok123")}
    \cup {("expiration" :> n) : n \in ExpSecs}
Payload == ("foo" :> "bar")
DataVals == {JNull, JObj(Payload)} \cup {JObj(g) : g \in Grants}

OkCodes == {0}
ErrorCodes == {400, 401, 403, 495, 504}
Codes == OkCodes \cup ErrorCodes

\* Envelopes {code, data}, with either field possibly missing.
Envelopes ==
    {("code" :> c) @@ ("data" :> d) : c \in Codes, d \in DataVals}
    \cup {("code" :> c) : c \in Codes}
    \cup {("data" :> d) : d \in DataVals}
    \cup {<<>>}

\* Response bodies: not JSON at all, a JSON array, or a JSON object.
BodyText == [json |-> "invalid"]
BodyArray == [json |-> "array"]
BodyObject(f) == [json |-> "object", obj |-> f]
Bodies ==
    {BodyText, BodyArray}
    \cup {BodyObject(e) : e \in Envelopes}
    \cup {BodyObject(g) : g \in Grants}

\* A transport response; raised = TRUE when requests.post itself raised
\* (no connection), and then status and body mean nothing.
Delivered(status, body) == [raised |-> FALSE, status |-> status, body |-> body]
NoConnection == [raised |-> TRUE, status |-> 0, body |-> BodyText]
NoResp == [raised |-> TRUE, status |-> 0, body |-> BodyArray]

\* Every body under status 200; under the other statuses a body that is
\* not JSON, a well-formed envelope, and envelopes short of a field.
OtherBodies ==
    {BodyText,
     BodyObject(("code" :> 0) @@ ("data" :> JObj(Payload))),
     BodyObject(("code" :> 401)),
     BodyObject(("data" :> JObj(Payload)))}

Responses ==
    {NoConnection}
    \cup {Delivered(200, b) : b \in Bodies}
    \cup {Delivered(s, b) : s \in ErrorCodes \cup {500}, b \in OtherBodies}

----------------------------------------------------------------------------
(* _make_request *)

\* Lines 106-116: the transport status mapped to an exception.
TransportStatusError(status) ==
    CASE status = 400 -> Err("ValueError", "response.text")
      [] status = 401 -> Err("HTTPError", "response.text")
      [] status = 403 -> Err("ConnectionError", "The server blocked access.")
      [] status = 495 -> Err("SSLError", "SSL certificate error")
      [] status = 504 -> Err("TimeoutError", "The server reported a gateway time-out error.")
      [] OTHER -> NoErr

BodyCodeError_No495(status_code) ==
    CASE status_code = 400 -> Err("ValueError", "response.text")
      [] status_code = 401 -> Err("HTTPError", "response.text")
      [] status_code = 403 -> Err("ConnectionError", "The server blocked access.")
      [] status_code = 504 -> Err("TimeoutError", "The server reported a gateway time-out error.")
      [] OTHER -> NoErr

\* Lines 130-140: the same mapping, applied to the body's code field.
BodyCodeError(status_code) ==
    CASE status_code = 400 -> Err("ValueError", "response.text")
      [] status_code = 401 -> Err("HTTPError", "response.text")
      [] status_code = 403 -> Err("ConnectionError", "The server blocked access.")
      [] status_code = 495 -> Err("SSLError", "SSL certificate error")
      [] status_code = 504 -> Err("TimeoutError", "The server reported a gateway time-out error.")
      [] OTHER -> NoErr

\* utils.force_encoded_json: the payload serialized as JSON text.
force_encoded_json(data) == [text |-> data]

\* How a function ends: it raises e at the named place, or returns v.
Raise(e, at) == [ok |-> FALSE, err |-> e, at |-> at, value |-> JNull, export |-> FALSE]
Return(v, export) == [ok |-> TRUE, err |-> NoErr, at |-> "", value |-> v, export |-> export]

EnvelopeCheck_CodeFirst(json_response) ==
    IF "code" \notin DOMAIN json_response
        THEN Raise(Err("Exception", "Request failed, no HTTP status code in JSON response"), "code field")
    ELSE IF BodyCodeError(json_response["code"]) # NoErr
        THEN Raise(BodyCodeError(json_response["code"]), "code")
    ELSE IF "data" \notin DOMAIN json_response
        THEN Raise(Err("Exception", "Request failed, no data in JSON response"), "data field")
    ELSE Return(json_response["data"], FALSE)

\* Lines 122-140: code present, then data present, then the code mapped.
EnvelopeCheck(json_response) ==
    IF "code" \notin DOMAIN json_response
        THEN Raise(Err("Exception", "Request failed, no HTTP status code in JSON response"), "code field")
    ELSE IF "data" \notin DOMAIN json_response
        THEN Raise(Err("Exception", "Request failed, no data in JSON response"), "data field")
    ELSE IF BodyCodeError(json_response["code"]) # NoErr
        THEN Raise(BodyCodeError(json_response["code"]), "code")
    ELSE Return(json_response["data"], FALSE)

\* The outcome of _make_request on the transport response resp: the
\* exception it raises, or the data it returns and whether it exported it.
MakeRequest(resp, export_file_name) ==
    IF resp.raised
        THEN Raise(Err("requests.ConnectionError", "no connection"), "post")
    ELSE IF TransportStatusError(resp.status) # NoErr
        THEN Raise(TransportStatusError(resp.status), "status")
    ELSE IF resp.body.json = "invalid"
        THEN Raise(Err("JSONDecodeError", "response.json()"), "json")
    ELSE IF resp.body.json = "array"
        THEN Raise(Err("AttributeError", "no keys()"), "json")
    ELSE LET checked == EnvelopeCheck(resp.body.obj) IN
        IF ~checked.ok THEN checked
        ELSE Return(checked.value, export_file_name # "")

\* json.dumps: the JSON text that encodes obj.
json_dumps(obj) == [text |-> obj]

\* Line 105: the request put on the wire by
\* requests.post(url, headers=headers, data=json.dumps(data)).
Request(url, hdrs, data) ==
    [url |-> url, headers |-> hdrs, data |-> json_dumps(data)]

\* One entry of the call's log: the request sent and how the step ended.
Attempt(step, req, out) ==
    [step |-> step, req |-> req, ok |-> out.ok, err |-> out.err, at |-> out.at,
     value |-> out.value]

\* utils.export_file: the text written under the given name.
export_file(data, file_name) == [name |-> file_name, content |-> data]

Written_Always(out, export_file_name) ==
    IF export_file_name # ""
        THEN <<export_file(force_encoded_json(out.value), export_file_name)>>
        ELSE <<>>

\* The export files a successful send writes (lines 142-143).
Written(out, export_file_name) ==
    IF out.ok /\ out.export
        THEN <<export_file(force_encoded_json(out.value), export_file_name)>>
        ELSE <<>>

----------------------------------------------------------------------------
(* __init__ *)

NoCall == [method |-> "", args |-> <<>>, endpoint |-> "", data |-> <<>>,
           export_file_name |-> ""]
NoResult == [done |-> FALSE, ok |-> FALSE, err |-> NoErr, value |-> JNull]
Returned(v) == [done |-> TRUE, ok |-> TRUE, err |-> NoErr, value |-> v]
Raised(e) == [done |-> TRUE, ok |-> FALSE, err |-> e, value |-> JNull]

Init ==
    /\ accessToken = None
    /\ expiration = None
    /\ headers = (CT :> "application/json")
    /\ granted = None
    /\ now = 0
    /\ pc = "idle"
    /\ call = NoCall
    /\ log = <<>>
    /\ lastResp = NoResp
    /\ writes = <<>>
    /\ result = NoResult

----------------------------------------------------------------------------
(* _api_request *)

ApiRequestOf(c) == Request(<<ApiUrl, c.endpoint>>, Some(headers), Some(c.data))

ExceptTaken_AuthOnly(out) == ~out.ok /\ out.err.type = "HTTPError"
ExceptTaken_Always(out) == TRUE
\* Line 189: `except Exception` is entered by every failure of the first send.
ExceptTaken(out) == ~out.ok

\* Lines 179-188: the first send. Its result is returned; an exception
\* leads to the except branch.
FirstSend(R) ==
    /\ pc = "first"
    /\ \E resp \in R :
        LET out == MakeRequest(resp, call.export_file_name) IN
        /\ lastResp' = resp
        /\ log' = Append(log, Attempt("send", ApiRequestOf(call), out))
        /\ writes' = writes \o Written(out, call.export_file_name)
        /\ IF ExceptTaken(out)
              THEN pc' = "auth" /\ result' = result
              ELSE /\ pc' = "done"
                   /\ result' = IF out.ok THEN Returned(out.value) ELSE Raised(out.err)
    /\ UNCHANGED <<accessToken, expiration, headers, granted, now, call>>

----------------------------------------------------------------------------
(* _authenticate *)

AuthRequest ==
    Request(<<AuthUrl, "apiKey", ApiKey, "apiSecret", ApiSecret>>, None, None)

\* result["accessToken"] / result["expiration"] on what _make_request returned.
Subscript(v, key) ==
    IF v.t = "null" THEN Raise(Err("TypeError", "NoneType is not subscriptable"), key)
    ELSE IF key \notin DOMAIN v.obj THEN Raise(Err("KeyError", key), key)
    ELSE Return(v.obj[key], FALSE)

MergeHeader_Dropped(hdrs, token) == hdrs
\* Line 71: self.headers["Access-Token"] = self.accessToken.
MergeHeader(hdrs, token) == (AT :> token) @@ hdrs

AfterAuth_Swallow(authenticated) == "retry"
\* Lines 191-192: the retry follows _authenticate only when it returned; an
\* exception raised by it leaves _api_request.
AfterAuth(authenticated) == IF authenticated THEN "retry" ELSE "done"

\* Lines 62-71, called from the except branch of _api_request (line 191).
\* Each assignment takes effect before the next line can raise.
Authenticate(R) ==
    /\ pc = "auth"
    /\ \E resp \in R :
        LET out == MakeRequest(resp, "")
            tok == Subscript(out.value, "accessToken")
            exp == Subscript(out.value, "expiration")
            fail(o) == /\ pc' = AfterAuth(FALSE)
                       /\ result' = Raised(o.err)
                       /\ log' = Append(log, Attempt("auth", AuthRequest, o))
        IN
        /\ lastResp' = resp
        /\ IF ~out.ok
              THEN fail(out) /\ UNCHANGED <<accessToken, expiration, headers, granted>>
           ELSE IF ~tok.ok
              THEN fail(tok) /\ UNCHANGED <<accessToken, expiration, headers, granted>>
           ELSE IF ~exp.ok
              THEN /\ fail(exp)
                   /\ accessToken' = Some(tok.value)
                   /\ UNCHANGED <<expiration, headers, granted>>
           ELSE /\ accessToken' = Some(tok.value)
                /\ expiration' = Some(now + exp.value)
                /\ headers' = MergeHeader(headers, tok.value)
                /\ granted' = Some(tok.value)
                /\ pc' = AfterAuth(TRUE)
                /\ result' = result
                /\ log' = Append(log, Attempt("auth", AuthRequest, Return(out.value, FALSE)))
    /\ UNCHANGED <<now, call, writes>>

Propagated_First(first, retry) == first
\* Lines 189-198: an exception raised inside the except branch replaces the
\* one being handled.
Propagated(first, retry) == retry

\* Lines 192-200: the retry. Its result or its exception is the call's.
RetrySend(R) ==
    /\ pc = "retry"
    /\ \E resp \in R :
        LET out == MakeRequest(resp, call.export_file_name) IN
        /\ lastResp' = resp
        /\ log' = Append(log, Attempt("send", ApiRequestOf(call), out))
        /\ writes' = writes \o Written(out, call.export_file_name)
        /\ pc' = "done"
        /\ result' = IF out.ok THEN Returned(out.value)
                     ELSE Raised(Propagated(log[1].err, out.err))
    /\ UNCHANGED <<accessToken, expiration, headers, granted, now, call>>

\* Line 200 / end of the call: control is back with the caller, and the
\* client object is idle until its next method is called.
Finish ==
    /\ pc = "done"
    /\ pc' = "idle"
    /\ call' = NoCall
    /\ log' = <<>>
    /\ lastResp' = NoResp
    /\ writes' = <<>>
    /\ result' = NoResult
    /\ UNCHANGED <<accessToken, expiration, headers, granted, now>>

\* Time passes between calls (datetime.now() is read by _authenticate only).
Tick ==
    /\ pc = "idle"
    /\ now < MaxTime
    /\ now' = now + 1
    /\ UNCHANGED <<accessToken, expiration, headers, granted, pc, call, log, lastResp,
                   writes, result>>

----------------------------------------------------------------------------
(* Parameter validators *)

\* Lines 12-15.
erc_valid(erc) ==
    IF erc \notin {"erc721", "erc1155"}
        THEN Err("ValueError", "erc must be one of \"erc721\" or \"erc1155\"")
        ELSE NoErr

\* parameters_validation.non_blank: the string is empty once stripped.
Blank == {"", "  "}
non_blank(string, arg_name) ==
    IF string \in Blank THEN Err("ValueError", arg_name) ELSE NoErr

\* parameters_validation.non_negative.
non_negative(number, arg_name) ==
    IF number < 0 THEN Err("ValueError", arg_name) ELSE NoErr

\* @validate_parameters: the first validation that fails raises.
RECURSIVE FirstError(_)
FirstError(checks) ==
    IF checks = <<>> THEN NoErr
    ELSE IF Head(checks) # NoErr THEN Head(checks)
    ELSE FirstError(Tail(checks))

min(a, b) == IF a <= b THEN a ELSE b

----------------------------------------------------------------------------
(* Domain methods *)

\* A domain method is called on an idle client: it raises the validation
\* error, or hands endpoint, data and export_file_name to _api_request.
Invoke(method, args, bad, data, export_file_name) ==
    /\ pc = "idle"
    /\ IF bad # NoErr
          THEN /\ pc' = "done"
               /\ result' = Raised(bad)
               /\ call' = [NoCall EXCEPT !.method = method, !.args = args]
          ELSE /\ pc' = "first"
               /\ result' = NoResult
               /\ call' = [method |-> method, args |-> args, endpoint |-> method,
                           data |-> data, export_file_name |-> export_file_name]
    /\ UNCHANGED <<accessToken, expiration, headers, granted, now, log, lastResp,
                   writes>>

\* Lines 203-232.
getAllNftByUserAddress(U) ==
    \E erc \in U.ercs, user_address \in U.strs, page_index \in U.idxs,
       page_size \in U.sizes, export_file_name \in U.exports :
        Invoke("getAllNftByUserAddress",
               [erc |-> erc, user_address |-> user_address,
                page_index |-> page_index, page_size |-> page_size],
               FirstError(<<erc_valid(erc), non_negative(page_index, "page_index")>>),
               [erc |-> erc, walletType |-> 3, page_index |-> page_index,
                page_size |-> min(page_size, MAX_PAGE_SIZE),
                user_address |-> user_address],
               export_file_name)

\* Lines 235-259.
getGroupByNftContract(U) ==
    \E erc \in U.ercs, user_address \in U.strs, export_file_name \in U.exports :
        Invoke("getGroupByNftContract",
               [erc |-> erc, user_address |-> user_address],
               FirstError(<<erc_valid(erc)>>),
               [erc |-> erc, user_address |-> user_address],
               export_file_name)

\* Lines 262-287.
getMintByUserAddress(U) ==
    \E page_index \in U.idxs, page_size \in U.sizes, user_address \in U.strs,
       export_file_name \in U.exports :
        Invoke("getMintByUserAddress",
               [page_index |-> page_index, page_size |-> page_size,
                user_address |-> user_address],
               FirstError(<<non_negative(page_index, "page_index"),
                            non_negative(page_size, "page_size"),
                            non_blank(user_address, "user_address")>>),
               [page_index |-> page_index, page_size |-> page_size,
                user_address |-> user_address],
               export_file_name)

\* Lines 290-318.
getMintByUserAddressAndNftAddress(U) ==
    \E nft_address \in U.strs, page_index \in U.idxs, page_size \in U.sizes,
       user_address \in U.strs, export_file_name \in U.exports :
        Invoke("getMintByUserAddressAndNftAddress",
               [nft_address |-> nft_address, page_index |-> page_index,
                page_size |-> page_size, user_address |-> user_address],
               FirstError(<<non_blank(nft_address, "nft_address"),
                            non_negative(page_index, "page_index"),
                            non_negative(page_size, "page_size"),
                            non_blank(user_address, "user_address")>>),
               [nft_address |-> nft_address, page_index |-> page_index,
                page_size |-> page_size, user_address |-> user_address],
               export_file_name)

\* Lines 321-346.
getNFTRecordByContract(U) ==
    \E nft_address \in U.strs, page_index \in U.idxs, page_size \in U.sizes,
       export_file_name \in U.exports :
        Invoke("getNFTRecordByContract",
               [nft_address |-> nft_address, page_index |-> page_index,
                page_size |-> page_size],
               FirstError(<<non_blank(nft_address, "nft_address"),
                            non_negative(page_index, "page_index"),
                            non_negative(page_size, "page_size")>>),
               [nft_address |-> nft_address, page_index |-> page_index,
                page_size |-> page_size],
               export_file_name)

\* Lines 349-377.
getNftByContractAndUserAddress(U) ==
    \E nft_address \in U.strs, page_index \in U.idxs, page_size \in U.sizes,
       user_address \in U.strs, export_file_name \in U.exports :
        Invoke("getNftByContractAndUserAddress",
               [nft_address |-> nft_address, page_index |-> page_index,
                page_size |-> page_size, user_address |-> user_address],
               FirstError(<<non_blank(nft_address, "nft_address"),
                            non_negative(page_index, "page_index"),
                            non_negative(page_size, "page_size"),
                            non_blank(user_address, "user_address")>>),
               [nft_address |-> nft_address, page_index |-> page_index,
                page_size |-> page_size, user_address |-> user_address],
               export_file_name)

\* Lines 380-411.
getRecordByUserAddressAndTokenId(U) ==
    \E nft_address \in U.strs, page_index \in U.idxs, page_size \in U.sizes,
       token_id \in U.strs, user_address \in U.strs,
       export_file_name \in U.exports :
        Invoke("getRecordByUserAddressAndTokenId",
               [nft_address |-> nft_address, page_index |-> page_index,
                page_size |-> page_size, token_id |-> token_id,
                user_address |-> user_address],
               FirstError(<<non_blank(nft_address, "nft_address"),
                            non_negative(page_index, "page_index"),
                            non_negative(page_size, "page_size"),
                            non_blank(token_id, "token_id"),
                            non_blank(user_address, "user_address")>>),
               [nft_address |-> nft_address, page_index |-> page_index,
                page_size |-> page_size, token_id |-> token_id,
                user_address |-> user_address],
               export_file_name)

\* Lines 414-438.
getSingleNft(U) ==
    \E nft_address \in U.strs, token_id \in U.strs, export_file_name \in U.exports :
        Invoke("getSingleNft",
               [nft_address |-> nft_address, token_id |-> token_id],
               FirstError(<<non_blank(nft_address, "nft_address"),
                            non_blank(token_id, "token_id")>>),
               [nft_address |-> nft_address, token_id |-> token_id],
               export_file_name)

\* Lines 441-470.
getSingleNftRecord(U) ==
    \E nft_address \in U.strs, page_index \in U.idxs, page_size \in U.sizes,
       token_id \in U.strs, export_file_name \in U.exports :
        Invoke("getSingleNftRecord",
               [nft_address |-> nft_address, page_index |-> page_index,
                page_size |-> page_size, token_id |-> token_id],
               FirstError(<<non_blank(nft_address, "nft_address"),
                            non_negative(page_index, "page_index"),
                            non_negative(page_size, "page_size"),
                            non_blank(token_id, "token_id")>>),
               [nft_address |-> nft_address, page_index |-> page_index,
                page_size |-> page_size, token_id |-> token_id],
               export_file_name)

\* Lines 473-494: nft_address is a list of addresses, and is not validated.
getStates(U) ==
    \E nft_address \in {<<a>> : a \in U.strs}, export_file_name \in U.exports :
        Invoke("getStates",
               [nft_address |-> nft_address],
               NoErr,
               [nft_address |-> nft_address],
               export_file_name)

\* Lines 497-525.
getUserRecordByContract(U) ==
    \E nft_address \in U.strs, page_index \in U.idxs, page_size \in U.sizes,
       user_address \in U.strs, export_file_name \in U.exports :
        Invoke("getUserRecordByContract",
               [nft_address |-> nft_address, page_index |-> page_index,
                page_size |-> page_size, user_address |-> user_address],
               FirstError(<<non_blank(nft_address, "nft_address"),
                            non_negative(page_index, "page_index"),
                            non_negative(page_size, "page_size"),
                            non_blank(user_address, "user_address")>>),
               [nft_address |-> nft_address, page_index |-> page_index,
                page_size |-> page_size, user_address |-> user_address],
               export_file_name)

\* Lines 528-553.
getUserRecordByUserAddress(U) ==
    \E page_index \in U.idxs, page_size \in U.sizes, user_address \in U.strs,
       export_file_name \in U.exports :
        Invoke("getUserRecordByUserAddress",
               [page_index |-> page_index, page_size |-> page_size,
                user_address |-> user_address],
               FirstError(<<non_negative(page_index, "page_index"),
                            non_negative(page_size, "page_size"),
                            non_blank(user_address, "user_address")>>),
               [page_index |-> page_index, page_size |-> page_size,
                user_address |-> user_address],
               export_file_name)

DomainCall(U) ==
    \/ getAllNftByUserAddress(U)
    \/ getGroupByNftContract(U)
    \/ getMintByUserAddress(U)
    \/ getMintByUserAddressAndNftAddress(U)
    \/ getNFTRecordByContract(U)
    \/ getNftByContractAndUserAddress(U)
    \/ getRecordByUserAddressAndTokenId(U)
    \/ getSingleNft(U)
    \/ getSingleNftRecord(U)
    \/ getStates(U)
    \/ getUserRecordByContract(U)
    \/ getUserRecordByUserAddress(U)

----------------------------------------------------------------------------
(* Specifications *)

\* The pipeline under every transport response, for well-formed calls.
Pipeline ==
    [ercs |-> {"erc721"}, strs |-> {"0xA"}, idxs |-> {0}, sizes |-> {10},
     exports |-> {"", "out.json"}, resps |-> Responses]

\* The domain methods under every argument, against a server that answers
\* with a payload, rejects the token, or grants one.
Surface ==
    [ercs |-> {"erc721", "erc1155", "erc20"}, strs |-> {"", "  ", "0xA"},
     idxs |-> {-1, 0}, sizes |-> {-1, 10, 100, 500},
     exports |-> {"", "out.json"},
     resps |-> {Delivered(200, BodyObject(("code" :> 0) @@ ("data" :> JObj(Payload)))),
                Delivered(401, BodyText),
                Delivered(200, BodyObject(("code" :> 0) @@ ("data" :>
                    JObj(("accessToken" :> "tok123") @@ ("expiration" :> 1)))))}]

NextOver(U) ==
    \/ DomainCall(U)
    \/ FirstSend(U.resps)
    \/ Authenticate(U.resps)
    \/ RetrySend(U.resps)
    \/ Finish
    \/ Tick

Next == NextOver(Pipeline)
NextArgs == NextOver(Surface)

Spec == Init /\ [][Next]_vars
SpecArgs == Init /\ [][NextArgs]_vars

----------------------------------------------------------------------------
(* Vocabulary of the properties *)

NumSends == Cardinality({i \in DOMAIN log : log[i].step = "send"})
NumAuths == Cardinality({i \in DOMAIN log : log[i].step = "auth"})

\* The error kinds of the design, as the exceptions the code raises.
Kind(e) ==
    CASE e.type = "ValueError" /\ e.why = "response.text" -> "BadRequest"
      [] e.type = "ValueError" /\ e.why # "response.text" -> "InvalidArgument"
      [] e.type = "HTTPError" -> "Unauthorized"
      [] e.type = "ConnectionError" -> "Forbidden"
      [] e.type = "SSLError" -> "TlsError"
      [] e.type = "TimeoutError" -> "GatewayTimeout"
      [] e.type = "requests.ConnectionError" -> "TransportError"
      [] e.type \in {"Exception", "JSONDecodeError", "AttributeError",
                     "KeyError", "TypeError"} -> "MalformedResponse"
      [] OTHER -> "none"

KindOfCode(c) ==
    CASE c = 400 -> "BadRequest"
      [] c = 401 -> "Unauthorized"
      [] c = 403 -> "Forbidden"
      [] c = 495 -> "TlsError"
      [] c = 504 -> "GatewayTimeout"
      [] OTHER -> "none"

\* The first send of the call in progress failed.
FirstFailed == Len(log) >= 1 /\ ~log[1].ok

\* The order of the steps of one call: a send, then at most one
\* authentication exchange, then at most one more send.
StepOrder ==
    /\ Len(log) <= 3
    /\ Len(log) >= 1 => log[1].step = "send"
    /\ Len(log) >= 2 => log[2].step = "auth"
    /\ Len(log) >= 3 => log[3].step = "send"

----------------------------------------------------------------------------
(* C1 *)

\* C1, as claimed: whenever the first send of a call has failed, the call
\* ends having authenticated exactly once and having sent exactly twice.
C1_AsClaimed ==
    /\ NumSends <= 2 /\ NumAuths <= 1
    /\ (pc = "done" /\ FirstFailed) => (NumAuths = 1 /\ NumSends = 2)

\* C1, amended: no call issues more than two sends or more than one
\* authentication exchange; once the first send has failed the call
\* authenticates exactly once, and it retries the send exactly once when
\* that authentication succeeded and not at all when it failed.
C1_ReauthOnceRetryOnce ==
    /\ StepOrder
    /\ NumSends <= 2 /\ NumAuths <= 1
    /\ FirstFailed => (IF Len(log) = 1 THEN pc = "auth" ELSE NumAuths = 1)
    /\ (pc = "done" /\ FirstFailed) =>
            /\ NumAuths = 1
            /\ NumSends = (IF log[2].ok THEN 2 ELSE 1)
    /\ (pc = "retry") => (FirstFailed /\ Len(log) = 2 /\ log[2].ok)

\* A call whose first send failed, whose authentication succeeded, and
\* whose retry has been issued.
C1_Witness ==
    pc = "done" /\ Len(log) = 3 /\ ~log[1].ok /\ log[2].ok
    /\ Kind(log[1].err) = "BadRequest"

----------------------------------------------------------------------------
(* C2 *)

\* C2: when the first send and the retry both fail, the call raises the
\* retry's exception.
C2_RetryErrorPropagates ==
    (pc = "done" /\ Len(log) = 3 /\ ~log[1].ok /\ ~log[3].ok) =>
        (result.done /\ ~result.ok /\ result.err = log[3].err)

\* Both sends failed, with different errors.
C2_Witness ==
    pc = "done" /\ Len(log) = 3 /\ ~log[1].ok /\ ~log[3].ok
    /\ Kind(log[1].err) = "Unauthorized" /\ Kind(log[3].err) = "GatewayTimeout"
    /\ result.err = log[3].err

----------------------------------------------------------------------------
(* C3 *)

\* The latest log entry is a send, and lastResp is the response it got.
LastIsSend == Len(log) \in {1, 3}
Last == log[Len(log)]

IsObject(resp) == ~resp.raised /\ resp.body.json = "object"

\* Transport status 200, body an envelope with code c and a data field.
EnvelopeCoded(resp, c) ==
    /\ IsObject(resp) /\ resp.status = 200
    /\ {"code", "data"} \subseteq DOMAIN resp.body.obj
    /\ resp.body.obj["code"] = c

\* Transport status c.
StatusCoded(resp, c) == ~resp.raised /\ resp.status = c

\* Both forms of the error c end the send with the error kind of c, and
\* the first send of a call then hands over to the authentication.
SameErrorKind ==
    \A c \in ErrorCodes :
        (LastIsSend /\ (EnvelopeCoded(lastResp, c) \/ StatusCoded(lastResp, c))) =>
            /\ ~Last.ok
            /\ Kind(Last.err) = KindOfCode(c)
            /\ Last.at = (IF StatusCoded(lastResp, c) THEN "status" ELSE "code")
            /\ Len(log) = 1 => pc = "auth"

\* The first send of the call failed on a transport status or on a body code.
FirstFailedOnCode == FirstFailed /\ log[1].at \in {"status", "code"}

\* C3, as claimed: both forms fail alike, and a call whose first send failed
\* so authenticates exactly once and then retries exactly once.
C3_AsClaimed ==
    /\ SameErrorKind
    /\ (pc = "done" /\ FirstFailedOnCode) => (NumAuths = 1 /\ NumSends = 2)

\* C3, amended: for each c of 400, 401, 403, 495, 504, status 200 with an
\* envelope of code c and a data field fails the send with the same error
\* kind as transport status c; in both cases the call authenticates exactly
\* once, and retries exactly once when that authentication succeeded (not
\* at all when it failed).
C3_BodyCodeAsStatus ==
    /\ SameErrorKind
    /\ (pc = "done" /\ FirstFailedOnCode) =>
            /\ NumAuths = 1
            /\ NumSends = (IF log[2].ok THEN 2 ELSE 1)

\* Status 200 with {code: 401, data: ...} on the first send, followed by a
\* successful authentication and the retry.
C3_Witness ==
    /\ pc = "done" /\ Len(log) = 3
    /\ log[1].at = "code" /\ Kind(log[1].err) = "Unauthorized"
    /\ log[2].ok

----------------------------------------------------------------------------
(* C4 *)

BaseHeaders == (CT :> "application/json")
HasToken(req) == ~req.headers.isNone /\ AT \in DOMAIN req.headers.val

\* The authentication exchange: key and secret in the query, no headers.
AuthExchangeShape ==
    \A i \in DOMAIN log :
        log[i].step = "auth" =>
            /\ log[i].req.headers = None
            /\ log[i].req.url = <<AuthUrl, "apiKey", ApiKey, "apiSecret", ApiSecret>>

\* C4, as claimed: every request to a main endpoint carries a bearer token,
\* the first request of a freshly constructed client included.
C4_AsClaimed ==
    /\ AuthExchangeShape
    /\ \A i \in DOMAIN log :
        log[i].step = "send" => HasToken(log[i].req)

\* C4, amended: a request to a main endpoint carries the token of the most
\* recent authentication that succeeded, and no Access-Token header when no
\* authentication has succeeded yet; the authentication exchange carries the
\* key and secret as query parameters and no headers.
C4_TokenOfLatestAuth ==
    /\ AuthExchangeShape
    /\ LastIsSend =>
          Last.req.headers =
              Some(IF granted.isNone THEN BaseHeaders
                   ELSE (AT :> granted.val) @@ BaseHeaders)
    /\ Len(log) = 3 =>
          /\ HasToken(log[3].req)
          /\ log[3].req.headers.val[AT] = log[2].value.obj["accessToken"]

\* A call sent with the token of an earlier call, re-authenticated, and
\* retried with the new token.
C4_Witness ==
    /\ Len(log) = 3
    /\ HasToken(log[1].req) /\ log[1].req.headers.val[AT] = "tok123"
    /\ HasToken(log[3].req) /\ log[3].req.headers.val[AT] = "tok456"

----------------------------------------------------------------------------
(* C5 *)

\* The body the authentication endpoint returns: {accessToken, expiration}.
BareGrant(resp) ==
    /\ IsObject(resp) /\ resp.status = 200
    /\ DOMAIN resp.body.obj = {"accessToken", "expiration"}

\* C5, as claimed: on the response {accessToken: t, expiration: n} the
\* authentication succeeds, t is the session token, and the header template
\* carries Access-Token: t.
C5_AsClaimed ==
    (Len(log) = 2 /\ BareGrant(lastResp)) =>
        /\ log[2].ok
        /\ accessToken = Some(lastResp.body.obj["accessToken"])
        /\ AT \in DOMAIN headers
        /\ headers[AT] = lastResp.body.obj["accessToken"]

----------------------------------------------------------------------------
(* C6 *)

StringArgs == {"user_address", "nft_address", "token_id"}
IntegerArgs == {"page_index", "page_size"}

\* The call in progress was given a blank string, a negative integer or an
\* unknown erc.
BadArgument ==
    /\ call.method \notin {"", "getStates"}
    /\ \/ \E k \in DOMAIN call.args \cap StringArgs : call.args[k] \in Blank
       \/ \E k \in DOMAIN call.args \cap IntegerArgs : call.args[k] < 0
       \/ "erc" \in DOMAIN call.args /\ call.args["erc"] \notin {"erc721", "erc1155"}

\* C6, as claimed: such a call sends nothing, and ends with an argument
\* error.
C6_AsClaimed ==
    BadArgument =>
        /\ log = <<>>
        /\ pc = "done" => Kind(result.err) = "InvalidArgument"

----------------------------------------------------------------------------
(* C7 *)

\* C7, as claimed: the page size of every request body is the requested
\* page size capped at 100.
C7_AsClaimed ==
    \A i \in DOMAIN log :
        (log[i].step = "send" /\ "page_size" \in DOMAIN log[i].req.data.text.val) =>
            /\ log[i].req.data.text.val["page_size"] <= MAX_PAGE_SIZE
            /\ log[i].req.data.text.val["page_size"] =
                  (IF call.args["page_size"] > MAX_PAGE_SIZE THEN MAX_PAGE_SIZE
                   ELSE call.args["page_size"])

----------------------------------------------------------------------------
(* C8 *)

\* A JSON object without code or without data, under a transport status
\* that is none of the five error statuses.
LacksField(resp) ==
    /\ IsObject(resp) /\ resp.status \notin ErrorCodes
    /\ ~({"code", "data"} \subseteq DOMAIN resp.body.obj)

\* C8: such a response fails the send with a malformed-response error,
\* whatever its code, and no call returns data from it.
C8_MissingFieldIsMalformed ==
    (Len(log) >= 1 /\ LacksField(lastResp)) =>
        /\ ~Last.ok
        /\ Last.err.type = "Exception"
        /\ Kind(Last.err) = "MalformedResponse"
        /\ ~result.ok

\* The body {code: 401} without data: malformed, not unauthorized.
C8_Witness ==
    /\ Len(log) = 1 /\ IsObject(lastResp) /\ lastResp.status = 200
    /\ lastResp.body.obj = ("code" :> 401)
    /\ Kind(log[1].err) = "MalformedResponse"

----------------------------------------------------------------------------
(* C9 *)

CompleteGrant(f) == {"accessToken", "expiration"} \subseteq DOMAIN f

\* The response is not turned down by its status or by its body code.
Accepted(resp) ==
    /\ ~resp.raised /\ resp.status \notin ErrorCodes
    /\ ~(/\ resp.body.json = "object"
         /\ {"code", "data"} \subseteq DOMAIN resp.body.obj
         /\ resp.body.obj["code"] \in ErrorCodes)

\* Neither the body nor its data field holds both accessToken and expiration.
LacksGrant(resp) ==
    \/ resp.body.json # "object"
    \/ /\ ~CompleteGrant(resp.body.obj)
       /\ ~(/\ "data" \in DOMAIN resp.body.obj
            /\ resp.body.obj["data"].t = "object"
            /\ CompleteGrant(resp.body.obj["data"].obj))

\* C9: an exchange response without accessToken or expiration fails the
\* authentication with a malformed-response error, a failed connection with
\* a transport error; the call raises the authentication's error and sends
\* no retry.
C9_AuthFailurePropagates ==
    /\ Len(log) = 2 =>
        /\ lastResp.raised => (~log[2].ok /\ Kind(log[2].err) = "TransportError")
        /\ (Accepted(lastResp) /\ LacksGrant(lastResp)) =>
                (~log[2].ok /\ Kind(log[2].err) = "MalformedResponse")
    /\ (Len(log) >= 2 /\ ~log[2].ok) =>
        /\ pc = "done"
        /\ Len(log) = 2
        /\ NumSends = 1
        /\ result = Raised(log[2].err)

\* An exchange answered with accessToken but no expiration, inside a call.
C9_Witness ==
    /\ pc = "done" /\ Len(log) = 2
    /\ log[2].err = Err("KeyError", "expiration")
    /\ result = Raised(log[2].err)

----------------------------------------------------------------------------
(* C10 *)

FirstOk == Len(log) >= 1 /\ log[1].ok
Session == <<accessToken, expiration, headers>>

\* A call whose first send succeeded has sent once, never authenticated,
\* and returned what that send returned.
C10_OneRequest ==
    FirstOk =>
        /\ pc = "done"
        /\ Len(log) = 1
        /\ NumAuths = 0
        /\ result = Returned(log[1].value)

\* The steps of such a call leave the session as it was.
C10_SessionKept ==
    ((pc = "first" /\ FirstOk') \/ (pc = "done" /\ FirstOk)) => UNCHANGED Session

\* C10: a call whose first send succeeds issues one request, does not
\* authenticate, and leaves token, expiry and header template unchanged,
\* whether or not a token was ever obtained or has expired.
C10_ReactiveAuthOnly == []C10_OneRequest /\ [][C10_SessionKept]_vars

\* A first send that succeeds although the stored expiry has passed.
C10_Witness ==
    /\ pc = "done" /\ FirstOk
    /\ ~expiration.isNone /\ expiration.val < now

----------------------------------------------------------------------------
(* C11 *)

\* The sends of the call in progress that succeeded.
OkSends == {i \in DOMAIN log : log[i].step = "send" /\ log[i].ok}

\* C11: only a send that succeeds writes the export target: a failed send
\* and the authentication exchange write nothing, a call that ends in an
\* error has written nothing, and a call that returns data to an export
\* target has written that data, once.
C11_ExportOnlyOnSuccess ==
    /\ Len(writes) =
          (IF call.export_file_name # "" THEN Cardinality(OkSends) ELSE 0)
    /\ Len(writes) <= 1
    /\ (pc = "done" /\ ~result.ok) => writes = <<>>
    /\ (pc = "done" /\ result.ok /\ call.export_file_name # "") =>
          writes = <<export_file(force_encoded_json(result.value),
                                 call.export_file_name)>>

\* A call with an export target whose first send carried data under an
\* error code, and whose retry returned the payload.
C11_Witness ==
    /\ pc = "done" /\ Len(log) = 3 /\ result.ok
    /\ log[1].at = "code"
    /\ call.export_file_name = "out.json"
    /\ writes = <<export_file(force_encoded_json(JObj(Payload)), "out.json")>>

----------------------------------------------------------------------------
(* C12 *)

\* The header template carries the stored token, or neither is there.
SessionConsistent ==
    IF accessToken.isNone THEN AT \notin DOMAIN headers
    ELSE AT \in DOMAIN headers /\ headers[AT] = accessToken.val

\* An authentication exchange that failed leaves the session as it was.
FailedAuthKeepsSession ==
    (pc = "auth" /\ Len(log') = 2 /\ ~log'[2].ok) => UNCHANGED Session

\* C12, as claimed: in every state the Access-Token header equals the stored
\* accessToken or both are absent, and a failed authentication exchange
\* changes neither the token, the expiry nor the header template.
C12_AsClaimed == []SessionConsistent /\ [][FailedAuthKeepsSession]_vars

====
